---- MODULE Spec2Model ----
(***************************************************************************)
(* Model of ollama-python-chat: main.py (mode selection, CLI start-up and  *)
(* chat loop, text-to-speech) and gui.py (ChatGUI: settings, send_message, *)
(* worker threads, display updates through the Tk event queue).            *)
(*                                                                         *)
(* A Python string is modelled as a sequence of atoms.  An atom is either  *)
(* a single significant character (" ", ".", "-", a digit, ...) or an      *)
(* opaque word whose inner characters no operation of the program looks    *)
(* at ("app_settings", "Hi").  Concatenation is \o, so split, strip,       *)
(* int(), float() and str() are computed on the text, not assumed.         *)
(***************************************************************************)
EXTENDS Integers, Sequences, FiniteSets, TLC

(***************************************************************************)
(* Bounds of the model.                                                    *)
(***************************************************************************)
MaxTurns == 2
MaxChunks == 2

(***************************************************************************)
(* Strings.                                                                *)
(***************************************************************************)
Digits == {"0", "1", "2", "3", "4", "5", "6", "7", "8", "9"}

DigitVal(c) ==
    CASE c = "0" -> 0 [] c = "1" -> 1 [] c = "2" -> 2 [] c = "3" -> 3
      [] c = "4" -> 4 [] c = "5" -> 5 [] c = "6" -> 6 [] c = "7" -> 7
      [] c = "8" -> 8 [] c = "9" -> 9

DigitChar(d) ==
    CASE d = 0 -> "0" [] d = 1 -> "1" [] d = 2 -> "2" [] d = 3 -> "3"
      [] d = 4 -> "4" [] d = 5 -> "5" [] d = 6 -> "6" [] d = 7 -> "7"
      [] d = 8 -> "8" [] d = 9 -> "9"

Whitespace == {" ", "\n", "\t"}

RECURSIVE lstrip(_)
lstrip(s) == IF s # <<>> /\ Head(s) \in Whitespace THEN lstrip(Tail(s)) ELSE s

RECURSIVE rstrip(_)
rstrip(s) ==
    IF s # <<>> /\ s[Len(s)] \in Whitespace
    THEN rstrip(SubSeq(s, 1, Len(s) - 1))
    ELSE s

\* str.strip()
strip(s) == rstrip(lstrip(s))

\* str.split(sep): the pieces between the occurrences of the atom sep
RECURSIVE split(_, _)
split(s, sep) ==
    IF \A i \in 1..Len(s) : s[i] # sep
    THEN <<s>>
    ELSE LET i == CHOOSE j \in 1..Len(s) :
                      s[j] = sep /\ \A k \in 1..(j - 1) : s[k] # sep
         IN  <<SubSeq(s, 1, i - 1)>> \o split(SubSeq(s, i + 1, Len(s)), sep)

\* the value of a sequence of digit atoms
RECURSIVE DigitsVal(_)
DigitsVal(s) ==
    IF s = <<>> THEN 0
    ELSE 10 * DigitsVal(SubSeq(s, 1, Len(s) - 1)) + DigitVal(s[Len(s)])

\* the decimal digits of a natural number
RECURSIVE NatStr(_)
NatStr(n) ==
    IF n < 10 THEN <<DigitChar(n)>> ELSE NatStr(n \div 10) \o <<DigitChar(n % 10)>>

RECURSIVE Zeros(_)
Zeros(k) == IF k <= 0 THEN <<>> ELSE <<"0">> \o Zeros(k - 1)

\* Python numeric literals allow single underscores between digits
DigitGroup(s) ==
    /\ s # <<>>
    /\ \A i \in 1..Len(s) : s[i] \in Digits \cup {"_"}
    /\ s[1] # "_" /\ s[Len(s)] # "_"
    /\ \A i \in 1..(Len(s) - 1) : ~(s[i] = "_" /\ s[i + 1] = "_")

RECURSIVE DropUnderscores(_)
DropUnderscores(s) ==
    IF s = <<>> THEN <<>>
    ELSE IF Head(s) = "_" THEN DropUnderscores(Tail(s))
    ELSE <<Head(s)>> \o DropUnderscores(Tail(s))

HasSign(s) == s # <<>> /\ Head(s) \in {"+", "-"}
Unsigned(s) == IF HasSign(s) THEN Tail(s) ELSE s
SignOf(s) == IF s # <<>> /\ Head(s) = "-" THEN -1 ELSE 1

(***************************************************************************)
(* Values of the configuration (what json.load yields and json.dump        *)
(* writes): int, float, str, bool, list of str, dict (a section).  A float *)
(* is n * 10^e with n not divisible by 10 (0.0 is n = 0, e = 0).           *)
(***************************************************************************)
VInt(k) == [t |-> "int", n |-> k, e |-> 0, s |-> <<>>, l |-> <<>>]
VStr(x) == [t |-> "str", n |-> 0, e |-> 0, s |-> x, l |-> <<>>]
VBool(b) == [t |-> "bool", n |-> IF b THEN 1 ELSE 0, e |-> 0, s |-> <<>>, l |-> <<>>]
VList(x) == [t |-> "list", n |-> 0, e |-> 0, s |-> <<>>, l |-> x]
VDict == [t |-> "dict", n |-> 0, e |-> 0, s |-> <<>>, l |-> <<>>]
VNone == [t |-> "none", n |-> 0, e |-> 0, s |-> <<>>, l |-> <<>>]

RECURSIVE VFloat(_, _)
VFloat(m, x) ==
    IF m = 0 THEN [t |-> "float", n |-> 0, e |-> 0, s |-> <<>>, l |-> <<>>]
    ELSE IF m % 10 = 0 THEN VFloat(m \div 10, x + 1)
    ELSE [t |-> "float", n |-> m, e |-> x, s |-> <<>>, l |-> <<>>]

\* Python truthiness: bool(v)
Truthy(v) ==
    CASE v.t = "none" -> FALSE
      [] v.t \in {"int", "float", "bool"} -> v.n # 0
      [] v.t = "str" -> v.s # <<>>
      [] v.t = "list" -> v.l # <<>>
      [] OTHER -> TRUE

\* int(text) succeeds
IsIntText(x) == DigitGroup(Unsigned(strip(x)))

IntOf(x) ==
    SignOf(strip(x)) * DigitsVal(DropUnderscores(Unsigned(strip(x))))

\* float(text): [sign] digits [. digits] [e [sign] digits], a digit in the
\* mantissa required
FloatMantissa(u) == Head(split(u, "e"))
FloatHasExp(u) == Len(split(u, "e")) > 1
FloatExpText(u) == split(u, "e")[2]
FloatIntPart(u) == Head(split(FloatMantissa(u), "."))
FloatHasPoint(u) == Len(split(FloatMantissa(u), ".")) > 1
FloatFracPart(u) == IF FloatHasPoint(u) THEN split(FloatMantissa(u), ".")[2] ELSE <<>>

IsFloatText(x) ==
    LET u == Unsigned(strip(x))
    IN  /\ Len(split(u, "e")) <= 2
        /\ Len(split(FloatMantissa(u), ".")) <= 2
        /\ FloatIntPart(u) = <<>> \/ DigitGroup(FloatIntPart(u))
        /\ FloatFracPart(u) = <<>> \/ DigitGroup(FloatFracPart(u))
        /\ FloatIntPart(u) # <<>> \/ FloatFracPart(u) # <<>>
        /\ FloatHasExp(u) => DigitGroup(Unsigned(FloatExpText(u)))

FloatOf(x) ==
    LET u == Unsigned(strip(x))
        ip == DropUnderscores(FloatIntPart(u))
        fp == DropUnderscores(FloatFracPart(u))
        ex == IF FloatHasExp(u)
              THEN SignOf(FloatExpText(u))
                      * DigitsVal(DropUnderscores(Unsigned(FloatExpText(u))))
              ELSE 0
    IN  VFloat(SignOf(strip(x)) * DigitsVal(ip \o fp), ex - Len(fp))

\* str(v) for the values shown in the settings dialog
IntStr(k) == IF k < 0 THEN <<"-">> \o NatStr(-k) ELSE NatStr(k)

FloatStr(v) ==
    LET m == IF v.n < 0 THEN -v.n ELSE v.n
        d == NatStr(m)
        sgn == IF v.n < 0 THEN <<"-">> ELSE <<>>
    IN  IF v.e >= 0 THEN sgn \o d \o Zeros(v.e) \o <<".", "0">>
        ELSE IF Len(d) > -v.e
        THEN sgn \o SubSeq(d, 1, Len(d) + v.e) \o <<".">>
                 \o SubSeq(d, Len(d) + v.e + 1, Len(d))
        ELSE sgn \o <<"0", ".">> \o Zeros(-v.e - Len(d)) \o d

StrOf(v) ==
    CASE v.t = "int" -> IntStr(v.n)
      [] v.t = "float" -> FloatStr(v)
      [] v.t = "bool" -> IF v.n = 1 THEN <<"True">> ELSE <<"False">>
      [] OTHER -> v.s

(***************************************************************************)
(* The configuration: what json.load returns for config.json.  A nested    *)
(* dict is a function from paths (sequences of keys) to values; a section  *)
(* is a path holding VDict.  The domain is closed under prefixes.          *)
(***************************************************************************)
K(a) == <<a>>
P1(a) == <<K(a)>>
P2(a, b) == <<K(a), K(b)>>

Get(c, p, default) == IF p \in DOMAIN c THEN c[p] ELSE default

StrictPrefix(p, q) == Len(p) < Len(q) /\ SubSeq(q, 1, Len(p)) = p

\* d[k] = v for the dict at path sec of c (sec exists and is a dict)
SetKey(c, p, v) ==
    LET dom == {q \in DOMAIN c : ~StrictPrefix(p, q)} \cup {p}
    IN  [q \in dom |-> IF q = p THEN v ELSE c[q]]

\* main.py 90-97: int(value), else float(value), else the string
ParseSetValue(value) ==
    IF IsIntText(value) THEN VInt(IntOf(value))
    ELSE IF IsFloatText(value) THEN FloatOf(value)
    ELSE VStr(value)

\* main.py 86-89, 98: walk the dotted key with setdefault, then assign.
\* Fails (AttributeError / TypeError) when a walked key holds a non-dict.
SetBlocked(c, key) ==
    LET keys == split(key, ".")
    IN  \E i \in 1..(Len(keys) - 1) :
            /\ SubSeq(keys, 1, i) \in DOMAIN c
            /\ c[SubSeq(keys, 1, i)].t # "dict"

SetOne(c, key, value) ==
    LET keys == split(key, ".")
        dom == {q \in DOMAIN c : ~StrictPrefix(keys, q)}
                  \cup {SubSeq(keys, 1, i) : i \in 1..Len(keys)}
    IN  [q \in dom |-> IF q = keys THEN ParseSetValue(value)
                       ELSE IF q \in DOMAIN c THEN c[q] ELSE VDict]

\* main.py 83-98: the pairs in command-line order; stops at the first
\* pair that raises
RECURSIVE ApplySets(_, _)
ApplySets(c, pairs) ==
    IF pairs = <<>> THEN [cfg |-> c, ok |-> TRUE]
    ELSE IF SetBlocked(c, Head(pairs)[1]) THEN [cfg |-> c, ok |-> FALSE]
    ELSE ApplySets(SetOne(c, Head(pairs)[1], Head(pairs)[2]), Tail(pairs))

(***************************************************************************)
(* Command lines.  An argument is an option with its values, as argparse   *)
(* groups them: [o |-> "--set", a |-> <<KEY, VALUE>>].                     *)
(***************************************************************************)
Arg(o, a) == [o |-> o, a |-> a]

\* main.py 212-215: parse_known_args with --gui and --mode
ModeOptions == {"--gui", "--mode"}

RECURSIVE LastOf(_, _, _)
LastOf(args, o, default) ==
    IF args = <<>> THEN default
    ELSE IF args[Len(args)].o = o THEN args[Len(args)].a
    ELSE LastOf(SubSeq(args, 1, Len(args) - 1), o, default)

HasOpt(args, o) == \E i \in 1..Len(args) : args[i].o = o

RECURSIVE Unknown(_)
Unknown(args) ==
    IF args = <<>> THEN <<>>
    ELSE IF Head(args).o \in ModeOptions THEN Unknown(Tail(args))
    ELSE <<Head(args)>> \o Unknown(Tail(args))

\* main.py 217-227
ModeSwapped(args, cfg) ==
    IF HasOpt(args, "--gui") THEN "gui"
    ELSE IF LastOf(args, "--mode", <<>>) # <<>>
    THEN LastOf(args, "--mode", <<>>)[1][1]
    ELSE IF Truthy(Get(cfg, P2("app_settings", "gui_enabled"), VBool(FALSE)))
    THEN "gui" ELSE "cli"

SelectMode(args, cfg) ==
    IF LastOf(args, "--mode", <<>>) # <<>>
    THEN LastOf(args, "--mode", <<>>)[1][1]
    ELSE IF HasOpt(args, "--gui") THEN "gui"
    ELSE IF Truthy(Get(cfg, P2("app_settings", "gui_enabled"), VBool(FALSE)))
    THEN "gui" ELSE "cli"

\* main.py 72: action='append' collects the pairs in order
RECURSIVE SetPairs(_)
SetPairs(args) ==
    IF args = <<>> THEN <<>>
    ELSE IF Head(args).o = "--set" THEN <<Head(args).a>> \o SetPairs(Tail(args))
    ELSE SetPairs(Tail(args))

(***************************************************************************)
(* State.                                                                  *)
(***************************************************************************)
VARIABLES
    argv,           \* the command line, as given
    file,           \* the document stored in config.json
    pc,             \* where the main thread is
    started,        \* which of run_gui / main_cli main() has started
    sys_argv,       \* sys.argv[1:] after main() rewrote it
    config,         \* the loaded configuration (main's config, ChatGUI.config)
    last,           \* the operation performed last and its input
    logging_enabled,\* whether log records are emitted
    log,            \* the error records emitted
    messages,       \* the chat history
    nreq,           \* number of client.chat calls made
    lastReq,        \* model and options of the latest client.chat call
    speaker,        \* main_cli: the speech binary found, if any
    model_name,     \* main_cli: model_name
    model_options,  \* main_cli: model_options
    exit_commands,  \* main_cli: exit_commands
    content_out,    \* main_cli: text accumulated since the last speech call
    message,        \* main_cli: content of the assistant message being built
    arrived,        \* main_cli: the chunks the current stream has delivered
    proc,           \* main_cli: the speech subprocess
    spoken,         \* main_cli: the text handed to the latest speech call
    model_var,      \* ChatGUI.model_var
    temp_scale,     \* ChatGUI.temp_scale
    display,        \* ChatGUI.chat_display, as the inserted pieces
    tkq,            \* Tk's queue of root.after(0, ...) callbacks
    status,         \* colour of ChatGUI.status_label
    workers         \* the threads started by send_message

mainVars == <<argv, file, pc, started, sys_argv, config>>
chatVars == <<logging_enabled, log, messages, nreq, lastReq>>
cliVars == <<speaker, model_name, model_options, exit_commands, content_out,
             message, arrived, proc, spoken>>
guiVars == <<model_var, temp_scale, display, tkq, status, workers>>
vars == <<mainVars, last, chatVars, cliVars, guiVars>>

Op(name, arg) == [op |-> name, arg |-> arg]

(***************************************************************************)
(* Inputs: configuration files and command lines.                          *)
(***************************************************************************)
S_bye == <<"/", "bye">>
S_exit == <<"/", "exit">>
S_quit == <<"/", "quit">>
S_q == <<"/", "q">>

\* main.py 126
DefaultExitCommands == <<S_bye, S_exit, S_quit>>

Section(name, kv) ==
    [p \in {P1(name)} \cup {P2(name, k) : k \in DOMAIN kv} |->
        IF p = P1(name) THEN VDict ELSE kv[p[2][1]]]

Merge(f, g) == [p \in DOMAIN f \cup DOMAIN g |-> IF p \in DOMAIN f THEN f[p] ELSE g[p]]

CommonSections ==
    Merge(Section("gui_settings", [theme |-> VStr(<<"light">>)]),
          Section("model_options", [temperature |-> VFloat(9, -1)]))

\* logging on, CLI by default, default exit commands
ConfigA ==
    Merge(Section("app_settings",
                  [model |-> VStr(<<"llama3.2">>), temperature |-> VFloat(7, -1),
                   logging_enabled |-> VBool(TRUE), gui_enabled |-> VBool(FALSE)]),
          CommonSections)

\* logging off, GUI by default, its own exit command
ConfigB ==
    Merge(Section("app_settings",
                  [model |-> VStr(<<"llama3.2">>), temperature |-> VFloat(7, -1),
                   logging_enabled |-> VBool(FALSE), gui_enabled |-> VBool(TRUE)]),
          Merge(CommonSections,
                [p \in {P1("exit_commands")} |-> VList(<<S_q>>)]))

\* neither logging_enabled nor gui_enabled given: the code's defaults apply
ConfigC ==
    Merge(Section("app_settings",
                  [model |-> VStr(<<"llama3.2">>), temperature |-> VFloat(7, -1)]),
          CommonSections)

A_gui == Arg("--gui", <<>>)
A_mode(m) == Arg("--mode", <<<<m>>>>)
A_model(m) == Arg("--model", <<m>>)
A_temperature(t) == Arg("--temperature", <<t>>)
A_speak == Arg("--speak", <<>>)
A_show == Arg("--show-config", <<>>)
A_set(k, v) == Arg("--set", <<k, v>>)

Key2(a, b) == <<a, ".", b>>
Key3(a, b, c) == <<a, ".", b, ".", c>>

\* the command lines tried, each with the configuration file it meets
Startups ==
    { <<<<>>, ConfigA>>,
      <<<<>>, ConfigB>>,
      <<<<>>, ConfigC>>,
      <<<<A_mode("gui")>>, ConfigC>>,
      <<<<A_mode("cli")>>, ConfigB>>,
      <<<<A_gui, A_mode("cli"), A_speak>>, ConfigA>>,
      <<<<A_mode("gui"), A_mode("cli")>>, ConfigB>>,
      <<<<A_model(<<"mistral">>), A_mode("gui")>>, ConfigA>>,
      <<<<A_mode("cli"), A_model(<<"mistral">>)>>, ConfigA>>,
      <<<<A_temperature(<<"0", ".", "5">>), A_speak>>, ConfigC>>,
      <<<<A_mode("cli"), A_temperature(<<"0", ".", "0">>)>>, ConfigB>>,
      <<<<A_mode("cli"), A_show>>, ConfigA>>,
      <<<<A_set(Key2("app_settings", "temperature"), <<"0", ".", "2">>),
          A_temperature(<<"0", ".", "5">>)>>, ConfigA>>,
      <<<<A_mode("cli"), A_set(Key2("app_settings", "speak"), <<"1">>),
          A_model(<<"mistral">>)>>, ConfigB>>,
      <<<<A_set(Key3("app_settings", "model", "x"), <<"1">>)>>, ConfigC>> }

(***************************************************************************)
(* main.py: main() and the start-up part of main_cli().                    *)
(***************************************************************************)
NoConfig == [p \in {} |-> VNone]
NoReq == [model |-> VNone, temperature |-> VNone]
NoOptions == [k \in {} |-> VNone]

InitRest ==
    /\ pc = "main"
    /\ started = {}
    /\ sys_argv = argv
    /\ config = NoConfig
    /\ last = Op("init", <<>>)
    /\ logging_enabled = FALSE
    /\ log = <<>>
    /\ messages = <<>>
    /\ nreq = 0
    /\ lastReq = NoReq
    /\ speaker = FALSE
    /\ model_name = VNone
    /\ model_options = NoOptions
    /\ exit_commands = VNone
    /\ content_out = <<>>
    /\ message = <<>>
    /\ arrived = <<>>
    /\ proc = "none"
    /\ spoken = <<>>
    /\ model_var = VNone
    /\ temp_scale = VNone
    /\ display = <<>>
    /\ tkq = <<>>
    /\ status = "none"
    /\ workers = <<>>

Init ==
    /\ \E st \in Startups : argv = st[1] /\ file = st[2]
    /\ InitRest

\* main.py 17-23, 26-29: json.load / json.dump of the document
load_config(doc) == doc
save_config(cfg) == cfg

\* main.py 208-236
main ==
    /\ pc = "main"
    /\ LET cfg == load_config(file)
           mode == SelectMode(argv, cfg)
       IN  /\ config' = cfg
           /\ sys_argv' = Unknown(argv)
           /\ started' = started \cup {mode}
           /\ pc' = IF mode = "gui" THEN "gui_init" ELSE "cli_start"
    /\ last' = Op("main", <<>>)
    /\ UNCHANGED <<argv, file, chatVars, cliVars, guiVars>>

IsDict(c, p) == p \in DOMAIN c /\ c[p].t = "dict"

\* main.py 77-78
ModelOverride(c, args) ==
    LET a == LastOf(args, "--model", <<>>)
    IN  IF a # <<>> /\ a[1] # <<>>
        THEN SetKey(c, P2("app_settings", "model"), VStr(a[1]))
        ELSE c

\* main.py 70, 79-80
TemperatureOverride(c, args) ==
    LET a == LastOf(args, "--temperature", <<>>)
    IN  IF a # <<>> /\ Truthy(FloatOf(a[1]))
        THEN SetKey(c, P2("app_settings", "temperature"), FloatOf(a[1]))
        ELSE c

\* main.py 76-100: the configuration after the overrides and the --set
\* pairs, whether a pair raised, and whether save_config was reached
Overrides(c, args) ==
    LET r == ApplySets(TemperatureOverride(ModelOverride(c, args), args),
                       SetPairs(args))
    IN  [cfg |-> r.cfg, ok |-> r.ok, saved |-> r.ok /\ SetPairs(args) # <<>>]

\* main.py 108, 120, 123: what raises once the configuration is used
StartupRaises(c) ==
    \/ ~IsDict(c, P1("app_settings"))
    \/ P2("app_settings", "model") \notin DOMAIN c
    \/ /\ P1("model_options") \in DOMAIN c
       /\ c[P1("model_options")].t # "dict"

\* main.py 121-123: config.get('model_options', {}) with the temperature
\* stored into it
ModelOptions(c) ==
    LET keys == {q[2][1] : q \in {r \in DOMAIN c :
                                     Len(r) = 2 /\ r[1] = K("model_options")
                                                /\ Len(r[2]) = 1}}
                   \cup {"temperature"}
    IN  [k \in keys |->
            IF k = "temperature"
            THEN Get(c, P2("app_settings", "temperature"), VFloat(7, -1))
            ELSE c[P2("model_options", k)]]

\* main.py 123: the dict is the one inside config, when config has it
WithOptionsTemperature(c) ==
    IF P1("model_options") \in DOMAIN c
    THEN SetKey(c, P2("model_options", "temperature"),
                Get(c, P2("app_settings", "temperature"), VFloat(7, -1)))
    ELSE c

\* main.py 67-127
main_cli_startup ==
    /\ pc = "cli_start"
    /\ LET o == Overrides(config, sys_argv)
       IN  /\ file' = IF o.saved THEN save_config(o.cfg) ELSE file
           /\ IF ~o.ok
              THEN /\ pc' = "crashed"
                   /\ config' = o.cfg
                   /\ UNCHANGED <<logging_enabled, cliVars>>
              ELSE IF HasOpt(sys_argv, "--show-config")
              THEN /\ pc' = "exit"
                   /\ config' = o.cfg
                   /\ UNCHANGED <<logging_enabled, cliVars>>
              ELSE IF StartupRaises(o.cfg)
              THEN /\ pc' = "crashed"
                   /\ config' = o.cfg
                   /\ UNCHANGED <<logging_enabled, cliVars>>
              ELSE /\ pc' = "prompt"
                   /\ config' = WithOptionsTemperature(o.cfg)
                   /\ logging_enabled' =
                        Truthy(Get(o.cfg, P2("app_settings", "logging_enabled"),
                                   VBool(FALSE)))
                   /\ \E found \in BOOLEAN :
                        speaker' =
                          /\ \/ HasOpt(sys_argv, "--speak")
                             \/ Truthy(Get(o.cfg, P2("app_settings", "speak"),
                                           VBool(FALSE)))
                          /\ found
                   /\ model_name' = o.cfg[P2("app_settings", "model")]
                   /\ model_options' = ModelOptions(o.cfg)
                   /\ exit_commands' =
                        Get(o.cfg, P1("exit_commands"), VList(DefaultExitCommands))
                   /\ UNCHANGED <<content_out, message, arrived, proc, spoken>>
    /\ last' = Op("main_cli", <<>>)
    /\ UNCHANGED <<argv, started, sys_argv, log, messages, nreq, lastReq, guiVars>>

(***************************************************************************)
(* main.py: the chat loop of main_cli() and speak().                       *)
(***************************************************************************)
InputLines == { <<>>, <<" ">>, <<"hello">>, <<" ">> \o S_quit \o <<"\n">>, S_q }

Chunks == { <<".">>, <<"Hi">>, <<"Hi", ".">> }

\* what the user may have typed into ChatGUI.message_entry
EntryTexts == { <<>>, <<" ">>, <<" ", "hello", " ">> }

\* the k-th chunk of a response streamed to the GUI: all different, so that
\* a lost, repeated or misplaced chunk shows
GuiChunk(k) == <<"chunk", DigitChar(k)>>

User(text) == [role |-> "user", content |-> text]
Assistant(text) == [role |-> "assistant", content |-> text]

\* logging.error (main.py 112, 174; gui.py 346-347): emitted unless logging
\* is disabled
LogErrorDropped(l, enabled, what) == l

LogError(l, enabled, what) == IF enabled THEN Append(l, what) ELSE l

InSeq(x, q) == \E i \in 1..Len(q) : q[i] = x

\* main.py 133: content_in.strip() in exit_commands
ExitRequestedUnstripped(line, cmds) == InSeq(line, cmds.l)

BlankUnstripped(text) == text = <<>>

\* main.py 137 `not content_in.strip()`, gui.py 363-364 `not message` with
\* message the stripped entry text
Blank(text) == strip(text) = <<>>

ExitRequested(line, cmds) == InSeq(strip(line), cmds.l)

\* main.py 162: content in ['.', '!', '?', '\n']
SentenceEndNewlineOnly(c) == c = <<"\n">>

SentenceEnd(c) == c \in { <<".">>, <<"!">>, <<"?">>, <<"\n">> }

\* main.py 161, 166 and gui.py 337: += content
AccumulateFront(text, c) == c \o text

Accumulate(text, c) == text \o c

\* main.py 58-59: speak() does something only with a speaker and a text
Speaks(spk, text) == spk /\ text # <<>>

\* main.py 61-62, 163: where the loop is once the subprocess has started:
\* inside speak(), awaiting p.communicate()
NotAwaited(after) == after

Awaited(after) == IF after = "stream" THEN "speak" ELSE "speak_tail"

\* main.py 130-141 and 147-152: one line read at the prompt
CliInput(line) ==
    /\ pc = "prompt"
    /\ exit_commands.t = "list"
    /\ IF ExitRequested(line, exit_commands)
       THEN /\ pc' = "exit"
            /\ UNCHANGED <<messages, nreq, lastReq, content_out, message, arrived>>
       ELSE IF Blank(line)
       THEN UNCHANGED <<pc, messages, nreq, lastReq, content_out, message, arrived>>
       ELSE /\ nreq < MaxTurns
            /\ messages' = Append(messages, User(line))
            /\ content_out' = <<>>
            /\ message' = <<>>
            /\ arrived' = <<>>
            /\ nreq' = nreq + 1
            /\ lastReq' = [model |-> model_name,
                           temperature |-> model_options["temperature"]]
            /\ pc' = "stream"
    /\ last' = Op("input", line)
    /\ UNCHANGED <<argv, file, started, sys_argv, config, logging_enabled, log,
                   speaker, model_name, model_options, exit_commands, proc,
                   spoken, guiVars>>

\* main.py 132, 176-179: input() raises EOFError or KeyboardInterrupt
CliInterrupt ==
    /\ pc = "prompt"
    /\ pc' = "exit"
    /\ last' = Op("interrupt", <<>>)
    /\ UNCHANGED <<argv, file, started, sys_argv, config, chatVars, cliVars,
                   guiVars>>

\* main.py 153-166: a response that is not the done response
CliChunk(c) ==
    /\ pc = "stream"
    /\ Len(arrived) < MaxChunks
    /\ arrived' = Append(arrived, c)
    /\ IF SentenceEnd(c) /\ Speaks(speaker, Accumulate(content_out, c))
       THEN \E launched \in BOOLEAN :
              IF launched
              THEN /\ proc' = "running"
                   /\ spoken' = Accumulate(content_out, c)
                   /\ content_out' = Accumulate(content_out, c)
                   /\ pc' = Awaited("stream")
                   /\ UNCHANGED <<message, log>>
              ELSE /\ log' = LogError(log, logging_enabled, "tts")
                   /\ content_out' = <<>>
                   /\ message' = Accumulate(message, c)
                   /\ UNCHANGED <<pc, proc, spoken>>
       ELSE /\ content_out' = IF SentenceEnd(c) THEN <<>>
                              ELSE Accumulate(content_out, c)
            /\ message' = Accumulate(message, c)
            /\ UNCHANGED <<pc, proc, spoken, log>>
    /\ last' = Op("chunk", c)
    /\ UNCHANGED <<argv, file, started, sys_argv, config, logging_enabled,
                   messages, nreq, lastReq, speaker, model_name, model_options,
                   exit_commands, guiVars>>

\* main.py 62, 164, 166: the subprocess has exited; the loop goes on
CliSpeakDone ==
    /\ pc \in {"speak", "speak_tail"}
    /\ proc = "running"
    /\ proc' = "exited"
    /\ IF pc = "speak"
       THEN /\ content_out' = <<>>
            /\ message' = Accumulate(message, arrived[Len(arrived)])
            /\ pc' = "stream"
       ELSE /\ pc' = "prompt"
            /\ UNCHANGED <<content_out, message>>
    /\ last' = Op("speak_done", <<>>)
    /\ UNCHANGED <<argv, file, started, sys_argv, config, chatVars, speaker,
                   model_name, model_options, exit_commands, arrived, spoken,
                   guiVars>>

\* main.py 154-156 and 168-171: the done response (done = TRUE), or the
\* stream ending without one (done = FALSE)
CliStreamEnd(done) ==
    /\ pc = "stream"
    /\ messages' = IF done THEN Append(messages, Assistant(message)) ELSE messages
    /\ IF Speaks(speaker, content_out)
       THEN \E launched \in BOOLEAN :
              IF launched
              THEN /\ proc' = "running"
                   /\ spoken' = content_out
                   /\ pc' = Awaited("prompt")
                   /\ UNCHANGED log
              ELSE /\ log' = LogError(log, logging_enabled, "tts")
                   /\ pc' = "prompt"
                   /\ UNCHANGED <<proc, spoken>>
       ELSE /\ pc' = "prompt"
            /\ UNCHANGED <<proc, spoken, log>>
    /\ last' = Op(IF done THEN "done" ELSE "end", <<>>)
    /\ UNCHANGED <<argv, file, started, sys_argv, config, logging_enabled, nreq,
                   lastReq, speaker, model_name, model_options, exit_commands,
                   content_out, message, arrived, guiVars>>

\* main.py 173-174: client.chat or the stream raises
CliStreamError ==
    /\ pc = "stream"
    /\ log' = LogError(log, logging_enabled, "chat")
    /\ pc' = "prompt"
    /\ last' = Op("error", <<>>)
    /\ UNCHANGED <<argv, file, started, sys_argv, config, logging_enabled,
                   messages, nreq, lastReq, cliVars, guiVars>>

(***************************************************************************)
(* gui.py: ChatGUI.  The main thread runs Tk's event loop: user events     *)
(* (send, theme toggle, selector, slider, settings dialog) and the         *)
(* callbacks queued with root.after(0, ...) run one at a time, callbacks   *)
(* in the order queued.  Each send_message starts a thread of its own.     *)
(***************************************************************************)
\* gui.py 37-55
THEMES == { <<"light">>, <<"dark">> }

\* gui.py 298-301
ThemeStatus(theme) == IF theme = <<"light">> THEN "green" ELSE "#00FF00"

ErrorText == <<"Error: Unable to get response.">>

Piece(kind, text, w) == [kind |-> kind, text |-> text, w |-> w]

\* gui.py 388-404: what update_chat_display inserts at the end of the
\* display; w names the response the call was made for
Inserted(content, role, w) ==
    IF role = "user" THEN <<Piece("user", content, w)>>
    ELSE IF role = "assistant"
    THEN <<Piece("label", <<>>, w), Piece("initial", <<" ">> \o content, w)>>
    ELSE <<Piece("text", content, w)>>

DisplayCall(content, role, w) ==
    [fn |-> "update_chat_display", content |-> content, role |-> role, w |-> w]
StatusCall(colour, w) ==
    [fn |-> "status_label.configure", content |-> <<colour>>, role |-> "none", w |-> w]
ErrorBoxCall(w) ==
    [fn |-> "messagebox.showerror", content |-> <<>>, role |-> "none", w |-> w]

Worker(at, text, got) == [pc |-> at, content |-> text, arrived |-> got]

\* gui.py 253-260: apply_theme stores the theme and saves the configuration
ThemeNotSaved(c, f) == f

ThemeSaved(c, f) == save_config(c)

\* main.py 184-192 and gui.py 58-84: run_gui builds the window and ChatGUI
GuiInit ==
    /\ pc = "gui_init"
    /\ LET own == load_config(file)
           theme == Get(own, P2("gui_settings", "theme"), VNone)
       IN  IF \/ P2("app_settings", "temperature") \notin DOMAIN config
              \/ P2("gui_settings", "theme") \notin DOMAIN own
              \/ theme.s \notin THEMES
           THEN /\ pc' = "exit"
                /\ UNCHANGED <<config, file, logging_enabled, model_var,
                               temp_scale, status>>
           ELSE /\ pc' = "gui"
                /\ config' = own
                /\ logging_enabled' =
                     Truthy(Get(own, P2("app_settings", "logging_enabled"),
                                VBool(TRUE)))
                /\ model_var' = config[P2("app_settings", "model")]
                /\ temp_scale' = config[P2("app_settings", "temperature")]
                /\ file' = ThemeSaved(own, file)
                /\ status' = ThemeStatus(theme.s)
    /\ last' = Op("gui_init", <<>>)
    /\ UNCHANGED <<argv, started, sys_argv, log, messages, nreq, lastReq,
                   cliVars, display, tkq, workers>>

\* gui.py 361-376
send_message(text) ==
    /\ pc = "gui"
    /\ IF Blank(text)
       THEN UNCHANGED <<display, messages, workers>>
       ELSE /\ Len(workers) < MaxTurns
            /\ display' = display
                            \o Inserted(strip(text), "user", Len(workers) + 1)
                            \o Inserted(<<>>, "assistant", Len(workers) + 1)
            /\ messages' = Append(messages, User(strip(text)))
            /\ workers' = Append(workers, Worker("start", <<>>, <<>>))
    /\ last' = Op("send", text)
    /\ UNCHANGED <<mainVars, logging_enabled, log, nreq, lastReq, cliVars,
                   model_var, temp_scale, tkq, status>>

\* gui.py 378-383, 316-330: the thread starts and calls client.chat
WorkerStart(w) ==
    /\ pc = "gui"
    /\ workers[w].pc = "start"
    /\ tkq' = Append(tkq, StatusCall("orange", w))
    /\ nreq' = nreq + 1
    /\ lastReq' = [model |-> model_var, temperature |-> temp_scale]
    /\ workers' = [workers EXCEPT ![w].pc = "stream"]
    /\ last' = Op("worker_start", <<>>)
    /\ UNCHANGED <<mainVars, logging_enabled, log, messages, cliVars, model_var,
                   temp_scale, display, status>>

\* gui.py 335-340: a response that is not the done response
WorkerChunk(w, c) ==
    /\ pc = "gui"
    /\ workers[w].pc = "stream"
    /\ Len(workers[w].arrived) < MaxChunks
    /\ c = GuiChunk(Len(workers[w].arrived) + 1)
    /\ workers' = [workers EXCEPT ![w].content = Accumulate(@, c),
                                  ![w].arrived = Append(@, c)]
    /\ tkq' = Append(tkq, DisplayCall(c, "none", w))
    /\ last' = Op("worker_chunk", c)
    /\ UNCHANGED <<mainVars, chatVars, cliVars, model_var, temp_scale, display,
                   status>>

\* gui.py 331-333, 343: the done response (done = TRUE), or the stream
\* ending without one (done = FALSE); then 384-386, the thread ends
WorkerStreamEnd(w, done) ==
    /\ pc = "gui"
    /\ workers[w].pc = "stream"
    /\ messages' = IF done THEN Append(messages, Assistant(workers[w].content))
                   ELSE messages
    /\ tkq' = Append(tkq, StatusCall("green", w))
    /\ workers' = [workers EXCEPT ![w].pc = "finished"]
    /\ last' = Op(IF done THEN "worker_done" ELSE "worker_end", <<>>)
    /\ UNCHANGED <<mainVars, logging_enabled, log, nreq, lastReq, cliVars,
                   model_var, temp_scale, display, status>>

\* gui.py 345-356: client.chat or the stream raises
WorkerError(w) ==
    /\ pc = "gui"
    /\ workers[w].pc = "stream"
    /\ log' = LogError(log, logging_enabled, "chat")
    /\ tkq' = tkq \o <<DisplayCall(ErrorText, "assistant", w),
                       StatusCall("red", w), ErrorBoxCall(w)>>
    /\ workers' = [workers EXCEPT ![w].pc = "failed"]
    /\ last' = Op("worker_error", <<>>)
    /\ UNCHANGED <<mainVars, logging_enabled, messages, nreq, lastReq, cliVars,
                   model_var, temp_scale, display, status>>

\* Tk runs the callback queued first
TkCallback ==
    /\ pc = "gui"
    /\ tkq # <<>>
    /\ tkq' = Tail(tkq)
    /\ LET cb == Head(tkq)
       IN  /\ display' = IF cb.fn = "update_chat_display"
                         THEN display \o Inserted(cb.content, cb.role, cb.w)
                         ELSE display
           /\ status' = IF cb.fn = "status_label.configure"
                        THEN cb.content[1] ELSE status
           /\ last' = Op(cb.fn, <<>>)
    /\ UNCHANGED <<mainVars, chatVars, cliVars, model_var, temp_scale, workers>>

(***************************************************************************)
(* gui.py: the settings the user can change in the window.                 *)
(***************************************************************************)
\* gui.py 253-301
apply_theme(theme) ==
    /\ config' = SetKey(config, P2("gui_settings", "theme"), VStr(theme))
    /\ file' = ThemeSaved(SetKey(config, P2("gui_settings", "theme"), VStr(theme)),
                          file)
    /\ status' = ThemeStatus(theme)

\* gui.py 303-307
toggle_theme ==
    /\ pc = "gui"
    /\ apply_theme(IF config[P2("gui_settings", "theme")].s = <<"light">>
                   THEN <<"dark">> ELSE <<"light">>)
    /\ last' = Op("toggle_theme", <<>>)
    /\ UNCHANGED <<argv, pc, started, sys_argv, chatVars, cliVars, model_var,
                   temp_scale, display, tkq, workers>>

\* gui.py 180-188: the model selector writes model_var only
SelectModel(m) ==
    /\ pc = "gui"
    /\ model_var' = VStr(m)
    /\ last' = Op("select_model", m)
    /\ UNCHANGED <<mainVars, chatVars, cliVars, temp_scale, display, tkq, status,
                   workers>>

\* gui.py 190-199: the slider writes temp_scale only
SlideTemperature(t) ==
    /\ pc = "gui"
    /\ temp_scale' = t
    /\ last' = Op("slide_temperature", <<>>)
    /\ UNCHANGED <<mainVars, chatVars, cliVars, model_var, display, tkq, status,
                   workers>>

\* The rows of the settings dialog, in the order save_settings visits them
\* (gui.py 605, 619, 634): app_settings, gui_settings, model_options
Rows(c) ==
    SelectSeq(<<P2("app_settings", "model"), P2("app_settings", "temperature"),
                P2("app_settings", "logging_enabled"),
                P2("app_settings", "gui_enabled"), P2("gui_settings", "theme"),
                P2("model_options", "temperature")>>,
              LAMBDA p : p \in DOMAIN c)

\* gui.py 557-600: a row shows str(value) (a checkbox for a bool) until
\* the user types something else
Shown(c, edits, p) ==
    IF \E i \in 1..Len(edits) : edits[i][1] = p
    THEN edits[CHOOSE i \in 1..Len(edits) : edits[i][1] = p][2]
    ELSE StrOf(c[p])

\* gui.py 606-616, 630-631, 636-640: whether the row's text is accepted
RowValid(old, p, text) ==
    IF p[1] = K("app_settings")
    THEN CASE old.t = "bool" -> TRUE
           [] old.t = "int" -> IsIntText(text)
           [] old.t = "float" -> IsFloatText(text)
           [] OTHER -> TRUE
    ELSE IF p[1] = K("gui_settings") THEN TRUE
    ELSE IF old.t = "int" THEN IsIntText(text) ELSE IsFloatText(text)

\* ... and the value stored for it
RowValue(old, p, text) ==
    IF p[1] = K("app_settings")
    THEN CASE old.t = "bool" -> VBool(text = <<"True">>)
           [] old.t = "int" -> VInt(IntOf(text))
           [] old.t = "float" -> FloatOf(text)
           [] OTHER -> VStr(text)
    ELSE IF p[1] = K("gui_settings") THEN VStr(text)
    ELSE IF old.t = "int" THEN VInt(IntOf(text)) ELSE FloatOf(text)

\* gui.py 605-643: the rows in order; the first row refused ends the save
RECURSIVE StoreRows(_, _, _)
StoreRows(c, rows, edits) ==
    IF rows = <<>> THEN [cfg |-> c, ok |-> TRUE]
    ELSE IF ~RowValid(c[Head(rows)], Head(rows), Shown(c, edits, Head(rows)))
    THEN [cfg |-> c, ok |-> FALSE]
    ELSE StoreRows(SetKey(c, Head(rows),
                          RowValue(c[Head(rows)], Head(rows),
                                   Shown(c, edits, Head(rows)))),
                   Tail(rows), edits)

\* what the user types into the dialog before pressing Save
DialogEdits ==
    { <<>>,
      << <<P2("app_settings", "temperature"), <<"0", ".", "3">>>> >>,
      << <<P2("app_settings", "temperature"), <<"hot">>>> >>,
      << <<P2("app_settings", "model"), <<"mistral">>>>,
         <<P2("gui_settings", "theme"), <<"dark">>>> >>,
      << <<P2("app_settings", "model"), <<"phi">>>>,
         <<P2("model_options", "temperature"), <<"hot">>>> >>,
      << <<P2("gui_settings", "theme"), <<"blue">>>> >>,
      << <<P2("model_options", "temperature"), <<"1">>>> >> }

\* gui.py 516-555 and 602-658: the dialog is opened, edited and saved
save_settings(edits) ==
    /\ pc = "gui"
    /\ LET r == StoreRows(config, Rows(config), edits)
           theme == r.cfg[P2("gui_settings", "theme")].s
       IN  IF ~r.ok
           THEN /\ config' = r.cfg
                /\ last' = Op("save_settings_refused", <<>>)
                /\ UNCHANGED <<file, status>>
           ELSE IF theme \notin THEMES
           THEN /\ config' = r.cfg
                /\ file' = save_config(r.cfg)
                /\ last' = Op("save_settings", <<>>)
                /\ UNCHANGED status
           ELSE /\ config' = r.cfg
                /\ file' = ThemeSaved(r.cfg, save_config(r.cfg))
                /\ status' = ThemeStatus(theme)
                /\ last' = Op("save_settings", <<>>)
    /\ UNCHANGED <<argv, pc, started, sys_argv, chatVars, cliVars, model_var,
                   temp_scale, display, tkq, workers>>

(***************************************************************************)
(* Specifications.  Spec: every start-up, then a chat session (CLI or      *)
(* GUI) with the settings as start-up left them.  SpecSettings: every      *)
(* start-up, among them lists of --set pairs, then the settings changed    *)
(* in the window.                                                          *)
(***************************************************************************)
Next ==
    \/ main
    \/ main_cli_startup
    \/ \E line \in InputLines : CliInput(line)
    \/ CliInterrupt
    \/ \E c \in Chunks : CliChunk(c)
    \/ CliSpeakDone
    \/ \E done \in BOOLEAN : CliStreamEnd(done)
    \/ CliStreamError
    \/ GuiInit
    \/ \E text \in EntryTexts : send_message(text)
    \/ \E w \in 1..Len(workers) : WorkerStart(w)
    \/ \E w \in 1..Len(workers), c \in {GuiChunk(k) : k \in 1..MaxChunks} :
          WorkerChunk(w, c)
    \/ \E w \in 1..Len(workers), done \in BOOLEAN : WorkerStreamEnd(w, done)
    \/ \E w \in 1..Len(workers) : WorkerError(w)
    \/ TkCallback

Spec == Init /\ [][Next]_vars

MaxSets == 2

SetKeys ==
    { Key2("app_settings", "temperature"), Key2("app_settings", "model"),
      Key3("app_settings", "model", "x"), <<"new">>, Key2("new", "k"),
      Key3("new", "sec", "k") }

SetValues ==
    { <<"7">>, <<"-", "1", "_", "0">>, <<"0", ".", "5">>, <<"1", "e", "1">>,
      <<"mistral">> }

RECURSIVE SetLines(_)
SetLines(n) ==
    IF n = 0 THEN { <<>> }
    ELSE SetLines(n - 1) \cup
         { Append(l, A_set(k, v)) :
             l \in {x \in SetLines(n - 1) : Len(x) = n - 1},
             k \in SetKeys, v \in SetValues }

InitSettings ==
    /\ \/ \E st \in Startups : argv = st[1] /\ file = st[2]
       \/ argv \in SetLines(MaxSets) /\ file = ConfigA
    /\ InitRest

Models == { <<"llama3.2">>, <<"mistral">> }
SliderPositions == { VFloat(0, 0), VFloat(5, -1), VFloat(1, 0) }

NextSettings ==
    \/ main
    \/ main_cli_startup
    \/ GuiInit
    \/ toggle_theme
    \/ \E m \in Models : SelectModel(m)
    \/ \E t \in SliderPositions : SlideTemperature(t)
    \/ \E edits \in DialogEdits : save_settings(edits)

SpecSettings == InitSettings /\ [][NextSettings]_vars

(***************************************************************************)
(* Properties.                                                             *)
(***************************************************************************)
RECURSIVE Flatten(_)
Flatten(chunks) ==
    IF chunks = <<>> THEN <<>> ELSE Head(chunks) \o Flatten(Tail(chunks))

\* C1: when the done response of a stream arrives, exactly one assistant
\* message is appended to the history, and its content is the chunks the
\* stream delivered, concatenated in arrival order (CLI loop and GUI worker).
C1_ChunksKept ==
    [][ /\ last'.op = "done" =>
             messages' = Append(messages, Assistant(Flatten(arrived)))
        /\ last'.op = "worker_done" =>
             \E w \in 1..Len(workers) :
                /\ workers[w].pc = "stream" /\ workers'[w].pc = "finished"
                /\ messages' =
                     Append(messages, Assistant(Flatten(workers[w].arrived)))
      ]_vars

\* C1 witness: the CLI has taken the done response of a stream of MaxChunks
\* chunks, not all alike, one of which was spoken, and the history ends
\* with their concatenation.
C1_Witness ==
    /\ last.op = "done"
    /\ Len(arrived) = MaxChunks
    /\ \E i, j \in 1..Len(arrived) : arrived[i] # arrived[j]
    /\ proc = "exited"
    /\ messages[Len(messages)] = Assistant(Flatten(arrived))

TextsOf(w) ==
    LET mine == SelectSeq(display, LAMBDA x : x.kind = "text" /\ x.w = w)
    IN  [i \in 1..Len(mine) |-> mine[i].text]

\* C2: in the GUI display the chunks of each response appear in arrival
\* order, each once, and contiguously after that response's own Assistant
\* label: nothing of another response stands between the label and a chunk.
C2_ResponsesContiguous ==
    /\ \A w \in 1..Len(workers) :
          /\ Len(TextsOf(w)) <= Len(workers[w].arrived)
          /\ TextsOf(w) = SubSeq(workers[w].arrived, 1, Len(TextsOf(w)))
    /\ \A i, j \in 1..Len(display) :
          ( /\ i < j
            /\ display[i].kind = "label" /\ display[j].kind = "text"
            /\ display[i].w = display[j].w )
          => \A k \in i..j : display[k].w = display[i].w

EndsSentence(c) == c # <<>> /\ c[Len(c)] \in {".", "!", "?", "\n"}

PunctuationChunks == { <<".">>, <<"!">>, <<"?">>, <<"\n">> }

\* speak() was called at this step with the text accumulated so far plus
\* chunk c: its subprocess runs and the loop waits for it, or the launch
\* failed and the text was dropped
SpokenNow(c) ==
    \/ /\ pc' = "speak" /\ proc' = "running"
       /\ spoken' = content_out \o c
       /\ arrived' = Append(arrived, c)
    \/ /\ pc' = "stream" /\ content_out' = <<>> /\ proc' = proc

\* C3 as claimed: with a speaker, every chunk whose text ends with '.', '!',
\* '?' or a newline has the accumulated text spoken at that point.
C3_SpokenAtSentenceEnd ==
    [][ (last'.op = "chunk" /\ speaker /\ EndsSentence(last'.arg))
          => SpokenNow(last'.arg) ]_vars

\* C3: with a speaker, every chunk whose text is exactly '.', '!', '?' or a
\* newline has the text accumulated since the previous speech call spoken at
\* that point, and accumulation restarts from empty before the next chunk.
C3_SpokenAtPunctuationChunk ==
    [][ /\ (last'.op = "chunk" /\ speaker /\ last'.arg \in PunctuationChunks)
          => SpokenNow(last'.arg)
        /\ (last'.op = "speak_done" /\ pc = "speak")
          => (content_out' = <<>> /\ arrived' = arrived /\ pc' = "stream")
      ]_vars

\* C3 witness: the chunk "." has just arrived after "Hi" and the two are
\* being spoken together.
C3_Witness ==
    /\ last.op = "chunk" /\ last.arg = <<".">>
    /\ pc = "speak" /\ proc = "running"
    /\ spoken = <<"Hi", ".">>

\* C4 as claimed: the speech call is fire-and-forget, so the loop is never
\* held waiting while the speech subprocess runs.
C4_FireAndForget == proc = "running" => pc \notin {"speak", "speak_tail"}

\* C4: the speech call is awaited: while the speech subprocess runs the loop
\* consumes no chunk and reads no input; only the exit of the subprocess
\* lets it go on.
C4_SpeechAwaited ==
    [][ proc = "running" =>
          /\ arrived' = arrived /\ messages' = messages /\ nreq' = nreq
          /\ proc' = "running" \/ last'.op = "speak_done" ]_vars

\* C4 witness: a speech subprocess is running in the middle of a stream
\* that may still deliver chunks.
C4_Witness ==
    /\ proc = "running" /\ pc = "speak"
    /\ Len(arrived) < MaxChunks

Theme == P2("gui_settings", "theme")
AppModel == P2("app_settings", "model")
AppTemperature == P2("app_settings", "temperature")

\* C5 as claimed: by whichever route a setting was changed, the file
\* equals the settings in effect (the model and temperature requests are
\* sent with, the theme shown).
C5_FileEqualsSettings ==
    /\ pc = "prompt" =>
          /\ Get(file, AppModel, VNone) = model_name
          /\ Get(file, AppTemperature, VNone) = model_options["temperature"]
    /\ pc = "gui" =>
          /\ Get(file, AppModel, VNone) = model_var
          /\ Get(file, AppTemperature, VNone) = temp_scale
          /\ Get(file, Theme, VNone) = Get(config, Theme, VNone)

\* C5: a change made with CLI --set (with or without --model and
\* --temperature), with the GUI theme toggle, or with a settings-dialog
\* save that passes validation is in the file afterwards; --model or
\* --temperature without --set, the GUI model selector, the temperature
\* slider and a refused dialog save leave the file as it was.
C5_PersistedRoutes ==
    [][ /\ last'.op = "toggle_theme" =>
             (file' = config' /\ file'[Theme] # config[Theme])
        /\ last'.op = "save_settings" => file' = config'
        /\ last'.op \in {"select_model", "slide_temperature",
                         "save_settings_refused"} => file' = file
        /\ (last'.op = "main_cli" /\ pc' = "prompt") =>
             IF HasOpt(argv, "--set")
             THEN /\ file'[AppModel] = model_name'
                  /\ file'[AppTemperature] = model_options'["temperature"]
             ELSE file' = file
      ]_vars

\* C5 witness: the theme has just been toggled to dark and the file holds it.
C5_Witness ==
    /\ last.op = "toggle_theme"
    /\ file[Theme] = VStr(<<"dark">>)
    /\ file = config

ErrorPiece(w) == Piece("initial", <<" ">> \o ErrorText, w)

AllFailedAndQuiet(ws, q) ==
    /\ ws # <<>>
    /\ \A w \in 1..Len(ws) : ws[w].pc = "failed"
    /\ q = <<>>

\* what C6 says of one step; mustLog is when a log record is required
ChatErrorHandled(mustLog) ==
    /\ last'.op = "error" =>
          /\ pc' = "prompt"
          /\ mustLog => log' = Append(log, "chat")
    /\ last'.op = "worker_error" =>
          /\ pc' = "gui"
          /\ mustLog => log' = Append(log, "chat")
          /\ \E w \in 1..Len(workers) :
                /\ workers[w].pc = "stream" /\ workers'[w].pc = "failed"
                /\ tkq' = tkq \o <<DisplayCall(ErrorText, "assistant", w),
                                   StatusCall("red", w), ErrorBoxCall(w)>>
    /\ AllFailedAndQuiet(workers', tkq') =>
          /\ status' = "red"
          /\ \A w \in 1..Len(workers') :
                \E i \in 1..Len(display') : display'[i] = ErrorPiece(w)

\* C6 as claimed: an exception of the chat request or its stream is caught
\* and logged and the application goes on (CLI: back at the prompt; GUI:
\* error text shown, indicator red, worker ended, window still running).
C6_CaughtAndLogged == [][ChatErrorHandled(TRUE)]_vars

\* C6: an exception of the chat request or its stream is caught, logged
\* when logging is enabled, and the application goes on (CLI: back at the
\* prompt; GUI: error text shown, indicator red, worker ended, window still
\* running).
C6_CaughtAndRecovered == [][ChatErrorHandled(logging_enabled)]_vars

\* C6 witness: in the GUI the first response failed, its error text was
\* shown, and a message sent afterwards got its response.
C6_Witness ==
    /\ pc = "gui"
    /\ Len(workers) = 2
    /\ workers[1].pc = "failed" /\ workers[2].pc = "finished"
    /\ \E i, j \in 1..Len(display) :
          /\ i < j
          /\ display[i] = ErrorPiece(1)
          /\ display[j].kind = "user" /\ display[j].w = 2
    /\ messages[Len(messages)].role = "assistant"

PairPath(pairs, i) == split(pairs[i][1], ".")

\* C7: after start-up every --set pair is in the configuration written to
\* the file: at its dotted path stands its value as int, else float, else
\* string, unless a later pair wrote that path or a section above it.
C7_SetPairsApplied ==
    (last.op = "main_cli" /\ HasOpt(argv, "--set")) =>
       LET pairs == SetPairs(argv)
       IN  /\ pc # "crashed"
           /\ \A i \in 1..Len(pairs) :
                 (\A j \in (i + 1)..Len(pairs) :
                     /\ PairPath(pairs, j) # PairPath(pairs, i)
                     /\ ~StrictPrefix(PairPath(pairs, j), PairPath(pairs, i)))
                 => /\ PairPath(pairs, i) \in DOMAIN file
                    /\ file[PairPath(pairs, i)] = ParseSetValue(pairs[i][2])

\* C8: a CLI run started with --temperature t (and no --set of
\* app_settings.temperature) sends every chat request with temperature t.
C8_TemperatureSent ==
    ( /\ "cli" \in started /\ nreq > 0
      /\ HasOpt(argv, "--temperature")
      /\ \A i \in 1..Len(SetPairs(argv)) :
            /\ PairPath(SetPairs(argv), i) # AppTemperature
            /\ PairPath(SetPairs(argv), i) # P1("app_settings") )
    => lastReq.temperature = FloatOf(LastOf(argv, "--temperature", <<>>)[1])

\* C9: main() starts exactly one of run_gui and main_cli: the one --mode
\* names if given, else gui if --gui is given, else gui if gui_enabled is
\* true in the file, else cli; and passes on exactly the arguments that are
\* neither --mode nor --gui.
C9_ModePrecedence ==
    /\ pc # "main" => Cardinality(started) = 1
    /\ last.op = "main" =>
          LET modes == {i \in 1..Len(argv) : argv[i].o = "--mode"}
              given == CHOOSE i \in modes : \A j \in modes : j <= i
              want == IF modes # {} THEN argv[given].a[1][1]
                      ELSE IF \E i \in 1..Len(argv) : argv[i].o = "--gui"
                      THEN "gui"
                      ELSE IF Get(file, P2("app_settings", "gui_enabled"),
                                  VBool(FALSE)) = VBool(TRUE)
                      THEN "gui" ELSE "cli"
          IN  /\ started = {want}
              /\ pc = IF want = "gui" THEN "gui_init" ELSE "cli_start"
              /\ sys_argv = SelectSeq(argv, LAMBDA a : a.o \notin {"--mode", "--gui"})

\* C9 witness: --gui and --mode cli were both given, with a further
\* argument, and main_cli was started with that argument alone.
C9_Witness ==
    /\ last.op = "main"
    /\ HasOpt(argv, "--gui") /\ HasOpt(argv, "--mode")
    /\ started = {"cli"}
    /\ sys_argv # <<>> /\ Len(sys_argv) < Len(argv)

ConfiguredExit ==
    Get(config, P1("exit_commands"), VList(DefaultExitCommands)).l

\* C10: at the CLI prompt, a line whose stripped text is a configured exit
\* command, or an end of input or keyboard interrupt, ends the loop with no
\* request sent and nothing added to the history; any other line does not
\* end the loop.
C10_ExitOnlyOnCommand ==
    [][ (pc = "prompt" /\ last'.op \in {"input", "interrupt"}) =>
          IF \/ last'.op = "interrupt"
             \/ InSeq(strip(last'.arg), ConfiguredExit)
          THEN pc' = "exit" /\ messages' = messages /\ nreq' = nreq
          ELSE pc' # "exit" ]_vars

\* C10 witness: after a completed exchange, an exit command typed with
\* surrounding blanks has ended the loop.
C10_Witness ==
    /\ pc = "exit" /\ last.op = "input"
    /\ last.arg # strip(last.arg)
    /\ Len(messages) >= 2

\* C11: an empty or whitespace-only input changes nothing, at the CLI prompt
\* and in the GUI's send_message alike: the history is unchanged, no chat
\* request is issued, no worker thread is started, nothing is added to the
\* display or queued for it, and the CLI stays at its prompt unless the blank
\* line is itself a configured exit command.
C11_BlankInputChangesNothing ==
    [][ (last'.op \in {"input", "send"} /\ strip(last'.arg) = <<>>) =>
          /\ messages' = messages
          /\ nreq' = nreq /\ lastReq' = lastReq
          /\ workers' = workers
          /\ display' = display /\ tkq' = tkq
          /\ status' = status
          /\ InSeq(<<>>, ConfiguredExit) \/ pc' = pc ]_vars

\* C11 witness: a whitespace-only entry was sent in the GUI after an earlier
\* message, while that message's worker thread exists.
C11_Witness ==
    /\ last.op = "send"
    /\ last.arg # <<>> /\ strip(last.arg) = <<>>
    /\ messages # <<>> /\ display # <<>> /\ workers # <<>>

====
